---- MODULE Spec2Model ----
(***************************************************************************)
(* A model of d2q9-bgk.c: the D2Q9 lattice Boltzmann time-stepping loop    *)
(* distributed over MPI ranks, each owning a contiguous strip of rows.     *)
(*                                                                         *)
(* Numbers.  The C code works on floats.  Here every distribution value is *)
(* an integer number of fixed-point units; accelerate, propagate, rebound, *)
(* the halo exchange and the gather only add, subtract, compare and copy   *)
(* values, which is exact.  collision and av_velocity divide: the quotient *)
(* is formed exactly as a fraction and rounded once (floor) to the unit,   *)
(* where the C code rounds to the nearest float.                           *)
(*                                                                         *)
(* Messages.  A standard-mode MPI send may complete before the matching    *)
(* receive is posted, so a channel is a FIFO queue per (source,            *)
(* destination, tag); a receive blocks until its queue is non-empty.       *)
(***************************************************************************)
EXTENDS Integers, Sequences, FiniteSets, TLC

NSPEEDS == 9
MASTER == 0

\* bounds of the model
MaxPartNY == 5
MaxPartRanks == 6
MaxNY == 4
MaxRanks == 2
MaxIters == 2
MaxKerNX == 3
MaxKerNY == 3
MaxFreeNY == 3
MaxFreeRanks == 3
MaxFreeIters == 2
MaxRvNY == 3
MaxRvRanks == 3
MaxRvIters == 1
MaxWideRanks == 3

VARIABLES
  params,      \* t_param: nx, ny, maxIters, density, accel, omega
  size,        \* number of ranks (MPI_Comm_size)
  dom,         \* dom[rank]: the rank's domain_start and domain_size
  obstacles,   \* obstacle mask, indexed ii + jj*nx (the same on every rank)
  cells,       \* cells[rank]: the rank's current grid
  tmp_cells,   \* tmp_cells[rank]: the rank's scratch grid
  av_vels,     \* av_vels[rank]: the entries written so far, by iteration
  pc,          \* pc[rank]: the statement the rank executes next
  tt,          \* tt[rank]: the iteration counter of the main loop
  ii, jj,      \* ii[rank], jj[rank]: the cell loop counters
  gi,          \* the loop counter i of the receiving side of sync_grid
  chan,        \* chan[<<from, to, tag>>]: messages in flight, in order
  red,         \* red[rank]: contributions to MPI_Reduce not yet combined
  tot,         \* tot[rank]: <<tot_u, tot_cells>> of the last av_velocity
  output,      \* what rank 0 printed and wrote: Reynolds number, final
               \* state, av_vels
  hAccel,      \* history: the <<rank, iteration>> that ran accelerate_flow
  hSend,       \* history: per rank, the messages sent
  hRecv,       \* history: per rank, the messages received and stored, with
               \* the buffer MPI filled
  hPost,       \* history: per rank, the grid after each iteration's collision
  hStep        \* history: per rank, the per-cell kernel calls of this iteration
               \* and the grid the first propagate of the iteration found

vars == <<params, size, dom, obstacles, cells, tmp_cells, av_vels, pc, tt, ii, jj,
          gi, chan, red, tot, output, hAccel, hSend, hRecv, hPost, hStep>>

Ranks == 0 .. (size - 1)
AllCells == 0 .. (params.nx * params.ny - 1)
Dirs == 0 .. (NSPEEDS - 1)
Tags == {0, 1, 2}

----------------------------------------------------------------------------
\* generic helpers

RECURSIVE SumFn(_, _)
SumFn(f, S) ==
  IF S = {} THEN 0
  ELSE LET x == CHOOSE y \in S : TRUE IN f[x] + SumFn(f, S \ {x})

\* sqrtf on fixed-point numbers: the integer square root
Sqrtf(n) == CHOOSE r \in 0 .. n : r * r <= n /\ n < (r + 1) * (r + 1)

\* velocity magnitudes are held in units of 1/VelUnit
VelUnit == 1000

\* the value of a float variable: a number of units, the result of a
\* division by zero, or whatever malloc left there
Num(n) == [k |-> "num", v |-> n]
NaN == [k |-> "nan", v |-> 0]
Unset == [k |-> "unset", v |-> 0]

\* float division
FDiv(a, b) == IF b = 0 THEN NaN ELSE Num(a \div b)

----------------------------------------------------------------------------
\* initialise

\* the rest distribution every cell starts with
InitSpeeds(p) ==
  [kk \in Dirs |->
     IF kk = 0 THEN (p.density * 4) \div 9
     ELSE IF kk <= 4 THEN p.density \div 9
     ELSE p.density \div 36]

InitCells(p) == [c \in 0 .. (p.nx * p.ny - 1) |-> InitSpeeds(p)]

\* the obstacle file: a set of (xx, yy) in range, each with blocked = 1
ObstacleMask(p, blocked) ==
  [c \in 0 .. (p.nx * p.ny - 1) |->
     IF \E o \in blocked : c = o[1] + o[2] * p.nx THEN 1 ELSE 0]

----------------------------------------------------------------------------
\* the domain of a rank (main, and again in sync_grid for every other rank)

\* for (i = 0; i < ny; ++i) { if (i % size == rank) domain_size++;
\*                              if (i % size < rank) domain_start++; }
RECURSIVE DomainLoop(_, _, _, _, _)
DomainLoop(i, ny, nranks, rank, d) ==
  IF i < ny
  THEN DomainLoop(i + 1, ny, nranks, rank,
         [domain_start |-> d.domain_start + (IF i % nranks < rank THEN 1 ELSE 0),
          domain_size |-> d.domain_size + (IF i % nranks = rank THEN 1 ELSE 0)])
  ELSE d

NoDomain == [domain_start |-> 0, domain_size |-> 0]

domain_size(ny, nranks, rank) ==
  DomainLoop(0, ny, nranks, rank, NoDomain).domain_size

domain_startMutant(ny, nranks, rank) == rank
domain_start(ny, nranks, rank) ==
  DomainLoop(0, ny, nranks, rank, NoDomain).domain_start

\* sync_grid, on the receiving side, for every rank i:
\* for (j = 0; j < rows; ++j) { if (j % ranks == i) rank_size++;
\*                               if (j % ranks < i) rank_start++; }
RECURSIVE RankLoop(_, _, _, _, _)
RankLoop(j, rows, ranks, i, r) ==
  IF j < rows
  THEN RankLoop(j + 1, rows, ranks, i,
         [rank_start |-> r.rank_start + (IF j % ranks < i THEN 1 ELSE 0),
          rank_size |-> r.rank_size + (IF j % ranks = i THEN 1 ELSE 0)])
  ELSE r

NoRank == [rank_start |-> 0, rank_size |-> 0]

rank_sizeMutant(rows, ranks, i) == rows \div ranks
rank_size(rows, ranks, i) == RankLoop(0, rows, ranks, i, NoRank).rank_size

rank_startMutant(rows, ranks, i) == i
rank_start(rows, ranks, i) == RankLoop(0, rows, ranks, i, NoRank).rank_start

Start(w) == dom[w].domain_start
Size(w) == dom[w].domain_size

----------------------------------------------------------------------------
\* the kernels

\* the rank that runs accelerate_flow in the main loop
AccelRankMutant(nranks) == 0
AccelRank(nranks) == nranks - 1

accelerate_flow(p, c, obs) ==
  LET w1 == (p.density * p.accel.num) \div (9 * p.accel.den)
      w2 == (p.density * p.accel.num) \div (36 * p.accel.den)
      row == p.ny - 2
  IN [x \in DOMAIN c |->
        IF /\ x \in {i + row * p.nx : i \in 0 .. (p.nx - 1)}
           /\ obs[x] = 0
           /\ c[x][3] - w1 > 0
           /\ c[x][6] - w2 > 0
           /\ c[x][7] - w2 > 0
        THEN [kk \in Dirs |->
                CASE kk = 1 -> c[x][1] + w1
                  [] kk \in {5, 8} -> c[x][kk] + w2
                  [] kk = 3 -> c[x][3] - w1
                  [] kk \in {6, 7} -> c[x][kk] - w2
                  [] OTHER -> c[x][kk]]
        ELSE c[x]]

\* the scratch grid after propagate(ii, jj)
propagateMutant(i, j, p, c, t) ==
  LET x_e == (i + 1) % p.nx
      x_w == IF i = 0 THEN i + p.nx - 1 ELSE i - 1
      y_n == (j + 1) % p.ny
      y_s == IF j = 0 THEN j + p.ny - 1 ELSE j - 1
      xx(kk) == IF kk \in {1, 5, 8} THEN x_e ELSE IF kk \in {3, 6, 7} THEN x_w ELSE i
      yy(kk) == IF kk \in {2, 5, 6} THEN y_s ELSE IF kk \in {4, 7, 8} THEN y_n ELSE j
  IN [t EXCEPT ![i + j * p.nx] = [kk \in Dirs |-> c[xx(kk) + yy(kk) * p.nx][kk]]]
propagate(i, j, p, c, t) ==
  LET y_n == (j + 1) % p.ny
      x_e == (i + 1) % p.nx
      y_s == IF j = 0 THEN j + p.ny - 1 ELSE j - 1
      x_w == IF i = 0 THEN i + p.nx - 1 ELSE i - 1
  IN [t EXCEPT ![i + j * p.nx] =
        [kk \in Dirs |->
           CASE kk = 0 -> c[i + j * p.nx][0]
             [] kk = 1 -> c[x_w + j * p.nx][1]
             [] kk = 2 -> c[i + y_s * p.nx][2]
             [] kk = 3 -> c[x_e + j * p.nx][3]
             [] kk = 4 -> c[i + y_n * p.nx][4]
             [] kk = 5 -> c[x_w + y_s * p.nx][5]
             [] kk = 6 -> c[x_e + y_s * p.nx][6]
             [] kk = 7 -> c[x_e + y_n * p.nx][7]
             [] kk = 8 -> c[x_w + y_n * p.nx][8]]]

\* the direction rebound reads from scratch for each direction it writes
ReboundFromMutant(kk) == kk
ReboundFrom(kk) ==
  CASE kk = 1 -> 3 [] kk = 2 -> 4 [] kk = 3 -> 1 [] kk = 4 -> 2
    [] kk = 5 -> 7 [] kk = 6 -> 8 [] kk = 7 -> 5 [] kk = 8 -> 6

\* the current grid after rebound(ii, jj)
rebound(i, j, p, c, t, obs) ==
  IF obs[j * p.nx + i] # 0
  THEN [c EXCEPT ![i + j * p.nx] =
          [kk \in Dirs |->
             IF kk = 0 THEN c[i + j * p.nx][0]
             ELSE t[i + j * p.nx][ReboundFrom(kk)]]]
  ELSE c

\* the lattice weights times 36: w0 = 16/36, w1 = 4/36, w2 = 1/36
Weight36Mutant(kk) == IF kk = 0 THEN 16 ELSE 4
Weight36(kk) == IF kk = 0 THEN 16 ELSE IF kk <= 4 THEN 4 ELSE 1

local_density(s) == SumFn(s, Dirs)

\* u_x * local_density and u_y * local_density
MomentumX(s) == (s[1] + s[5] + s[8]) - (s[3] + s[6] + s[7])
MomentumY(s) == (s[2] + s[5] + s[6]) - (s[4] + s[7] + s[8])

\* u[kk] * local_density
MomentumDir(kk, s) ==
  LET ex == MomentumX(s)
      ey == MomentumY(s)
  IN CASE kk = 0 -> 0
       [] kk = 1 -> ex
       [] kk = 2 -> ey
       [] kk = 3 -> 0 - ex
       [] kk = 4 -> 0 - ey
       [] kk = 5 -> ex + ey
       [] kk = 6 -> ey - ex
       [] kk = 7 -> 0 - ex - ey
       [] kk = 8 -> ex - ey

\* d_equ[kk] = w_kk * rho * (1 + u/c_sq + u^2/(2 c_sq^2) - u_sq/(2 c_sq))
\* with c_sq = 1/3 and u = e/rho, as the fraction d_equNum / d_equDen
d_equNum(kk, s) ==
  LET rho == local_density(s)
      e == MomentumDir(kk, s)
      esq == MomentumX(s) * MomentumX(s) + MomentumY(s) * MomentumY(s)
  IN Weight36(kk) * (2 * rho * rho + 6 * e * rho + 9 * e * e - 3 * esq)

d_equDen(s) == 72 * local_density(s)

d_equ(kk, s) == d_equNum(kk, s) \div d_equDen(s)

\* the current grid after collision(ii, jj)
CollisionSkipMutant(o) == FALSE
CollisionSkip(o) == o # 0

collision(i, j, p, c, t, obs) ==
  IF ~CollisionSkip(obs[i + j * p.nx])
  THEN LET s == t[i + j * p.nx]
       IN [c EXCEPT ![i + j * p.nx] =
             [kk \in Dirs |->
                s[kk] + (p.omega.num * (d_equ(kk, s) - s[kk])) \div p.omega.den]]
  ELSE c

\* av_velocity before the reduction: <<tot_u, tot_cells>> over the rows
\* [start, start + len)
CellSpeed(s) ==
  (Sqrtf(MomentumX(s) * MomentumX(s) + MomentumY(s) * MomentumY(s)) * VelUnit)
    \div local_density(s)

FluidCellsMutant(p, obs, start, len) ==
  {x \in 0 .. (p.nx * p.ny - 1) : obs[x] = 0}
FluidCells(p, obs, start, len) ==
  {x \in 0 .. (p.nx * p.ny - 1) :
     /\ x \div p.nx >= start
     /\ x \div p.nx < start + len
     /\ obs[x] = 0}

av_velocity_local(p, c, obs, start, len) ==
  LET F == FluidCells(p, obs, start, len)
  IN <<SumFn([x \in F |-> CellSpeed(c[x])], F), Cardinality(F)>>

\* calc_reynolds: av_velocity over rows [0, height) without reduction,
\* times reynolds_dim, over viscosity = 1/6 * (2/omega - 1)
calc_reynolds(p, c, obs, height) ==
  LET pair == av_velocity_local(p, c, obs, 0, height)
      av == FDiv(pair[1], pair[2])
  IN IF av.k = "nan" THEN NaN
     ELSE FDiv(av.v * p.reynolds_dim * 6 * p.omega.num,
               2 * p.omega.den - p.omega.num)

\* write_values: the line of cell (i, j) in the final state file, flag being
\* the obstacle flag it prints
FinalStateLine(p, c, obs, i, j, flag) ==
  IF obs[i + j * p.nx] # 0
  THEN [ii |-> i, jj |-> j, u_x |-> Num(0), u_y |-> Num(0), u |-> 0,
        pressure |-> p.density \div 3, obstacle |-> flag]
  ELSE LET s == c[i + j * p.nx]
       IN [ii |-> i, jj |-> j,
           u_x |-> FDiv(MomentumX(s) * VelUnit, local_density(s)),
           u_y |-> FDiv(MomentumY(s) * VelUnit, local_density(s)),
           u |-> CellSpeed(s),
           pressure |-> local_density(s) \div 3,
           obstacle |-> flag]

----------------------------------------------------------------------------
\* message buffers

\* SendRecv: sendbuf[ii * NSPEEDS + jj] = cells[ii + sendRow * width].speeds[jj]
PackRow(c, sendRow, width) ==
  [x \in 0 .. (width * NSPEEDS - 1) |->
     c[(x \div NSPEEDS) + sendRow * width][x % NSPEEDS]]

\* the outcome of a read past the end of cells: the process is killed
Fault == <<>>

\* SendRecv: what the loop that fills sendbuf may leave in it.  Row sendRow
\* of a grid of `height` rows; a row past the last one lies outside the
\* array, and reading it yields whatever the memory holds, or a fault.
SendBufs(c, sendRow, width, height) ==
  IF sendRow \in 0 .. (height - 1)
  THEN {PackRow(c, sendRow, width)}
  ELSE {[x \in 0 .. (width * NSPEEDS - 1) |-> v] : v \in {0, 1}} \cup {Fault}

\* SendRecv: cells[ii + receiveRow * width].speeds[jj] = recvbuf[ii * NSPEEDS + jj]
UnpackRow(c, recvbuf, receiveRow, width) ==
  [x \in DOMAIN c |->
     IF x \in {i + receiveRow * width : i \in 0 .. (width - 1)}
     THEN [kk \in Dirs |-> recvbuf[(x - receiveRow * width) * NSPEEDS + kk]]
     ELSE c[x]]

\* sync_grid: send[kk + NSPEEDS * (ii + columns * jj)] =
\*              cells[ii + columns * (jj + domain_start)].speeds[kk]
PackDomain(c, start, len, columns) ==
  [x \in 0 .. (columns * len * NSPEEDS - 1) |->
     c[((x \div NSPEEDS) % columns)
         + columns * (((x \div NSPEEDS) \div columns) + start)][x % NSPEEDS]]

\* sync_grid: cells[ii + columns * (jj + rank_start)].speeds[kk] =
\*              recv[kk + NSPEEDS * (ii + columns * jj)]
UnpackDomain(c, recv, start, len, columns) ==
  [x \in DOMAIN c |->
     IF x \div columns >= start /\ x \div columns < start + len
     THEN [kk \in Dirs |->
             recv[kk + NSPEEDS * ((x % columns)
                                   + columns * ((x \div columns) - start))]]
     ELSE c[x]]

----------------------------------------------------------------------------
\* halo_exchange: the arguments of its two SendRecv calls (step 0, step 1)

HaloTo(step, rank, nranks) ==
  IF step = 0 THEN ((nranks + rank) - 1) % nranks
  ELSE ((nranks + rank) + 1) % nranks

HaloFrom(step, rank, nranks) ==
  IF step = 0 THEN ((nranks + rank) + 1) % nranks
  ELSE ((rank + nranks) - 1) % nranks

HaloSendRowMutant(step, start, len) == start
HaloSendRowSwapped(step, start, len) ==
  IF step = 0 THEN (start + len) - 1 ELSE start
HaloSendRow(step, start, len) ==
  IF step = 0 THEN start ELSE (start + len) - 1

HaloReceiveRowMutant(step, start, len, height) ==
  IF step = 0 THEN ((start + height) - 1) % height
  ELSE (start + len) % height
HaloReceiveRow(step, start, len, height) ==
  IF step = 0 THEN (start + len) % height
  ELSE ((start + height) - 1) % height

----------------------------------------------------------------------------
\* control flow of main

FinalPc(w) == IF w = MASTER THEN "write_values" ELSE "finalise"

\* if (size != 1) sync_grid(...)
SyncPcMutant(w) == FinalPc(w)
SyncPc(w) ==
  IF size # 1
  THEN (IF w # MASTER THEN "sync_send" ELSE "sync_recv")
  ELSE FinalPc(w)

\* the cell loops: for jj in [domain_start, domain_start + domain_size)
PropagatePc(len) == IF len > 0 THEN "propagate" ELSE "av_velocity"

\* halo_exchange: if (size != 1)
HaloPcMutant(len) == PropagatePc(len)
HaloPcAlways(len) == "send0"
HaloPc(len) == IF size # 1 THEN "send0" ELSE PropagatePc(len)

\* for (tt = 0; tt < maxIters; tt++) { if (rank == size - 1) ...
LoopPcMutant(w, t, len) ==
  IF t <= params.maxIters
  THEN (IF w = AccelRank(size) THEN "accelerate_flow" ELSE HaloPc(len))
  ELSE SyncPc(w)
LoopPc(w, t, len) ==
  IF t < params.maxIters
  THEN (IF w = AccelRank(size) THEN "accelerate_flow" ELSE HaloPc(len))
  ELSE SyncPc(w)

\* the last cell of the loops over the rank's rows
LastCell(w) == ii[w] + 1 >= params.nx /\ jj[w] + 1 >= Start(w) + Size(w)

NextII(w) == IF ii[w] + 1 < params.nx THEN ii[w] + 1 ELSE 0
NextJJ(w) ==
  IF ii[w] + 1 < params.nx THEN jj[w]
  ELSE IF jj[w] + 1 < Start(w) + Size(w) THEN jj[w] + 1
  ELSE Start(w)

NoStep == [halo |-> 0, prop |-> {}, reb |-> {}, coll |-> {}, src |-> <<>>]

----------------------------------------------------------------------------
\* the initial state: after initialise and the domain computation of main

\* the obstacle files tried: no obstacle, or one blocked cell in column 0
\* (the initial grid is the same in every column, and x is periodic)
ObstacleFiles(p) == {{}} \cup {{<<0, y>>} : y \in 0 .. (p.ny - 1)}

\* the parameter files tried: no iteration at all, or MaxIters of them (a
\* shorter run is a prefix of a longer one up to the gather)
ParamSet ==
  [nx : {2}, ny : 2 .. MaxNY, maxIters : {0, MaxIters}, reynolds_dim : {2},
   density : {360}, accel : {[num |-> 1, den |-> 10]},
   omega : {[num |-> 3, den |-> 2]}]

\* the state when main enters the domain loop, the grid being g on every rank
InitWith(p, n, blocked, g) ==
  /\ params = p
  /\ size = n
  /\ dom = [w \in 0 .. (n - 1) |-> NoDomain]
  /\ obstacles = ObstacleMask(p, blocked)
  /\ cells = [w \in 0 .. (n - 1) |-> g]
  \* tmp_cells and av_vels come from malloc; no entry is read before written
  /\ tmp_cells = [w \in 0 .. (n - 1) |->
                    [c \in 0 .. (p.nx * p.ny - 1) |-> [kk \in Dirs |-> 0]]]
  /\ av_vels = [w \in 0 .. (n - 1) |->
                  [t \in 0 .. (p.maxIters - 1) |-> Unset]]
  /\ tt = [w \in 0 .. (n - 1) |-> 0]
  /\ pc = [w \in 0 .. (n - 1) |-> "domain"]
  /\ ii = [w \in 0 .. (n - 1) |-> 0]
  /\ jj = [w \in 0 .. (n - 1) |-> 0]
  /\ gi = 1
  /\ chan = [c \in (0 .. (n - 1)) \X (0 .. (n - 1)) \X Tags |-> <<>>]
  /\ red = [w \in 0 .. (n - 1) |-> <<>>]
  /\ tot = [w \in 0 .. (n - 1) |-> <<0, 0>>]
  /\ output = [written |-> FALSE]
  /\ hAccel = {}
  /\ hSend = [w \in 0 .. (n - 1) |-> <<>>]
  /\ hRecv = [w \in 0 .. (n - 1) |-> <<>>]
  /\ hPost = [w \in 0 .. (n - 1) |-> <<>>]
  /\ hStep = [w \in 0 .. (n - 1) |-> NoStep]

InitState(p, n, blocked) == InitWith(p, n, blocked, InitCells(p))

\* every rank has run initialise on the same files; at most as many ranks
\* as rows
Init ==
  \E p \in ParamSet :
    \E n \in 1 .. (IF MaxRanks < p.ny THEN MaxRanks ELSE p.ny) :
      \E blocked \in ObstacleFiles(p) : InitState(p, n, blocked)

----------------------------------------------------------------------------
\* the steps of a rank

config == <<params, size, obstacles, output>>
comm == <<chan, red>>
loops == <<ii, jj, gi>>
fixed == <<config, dom>>

\* main: the loop that counts domain_start and domain_size
ComputeDomain(w) ==
  /\ pc[w] = "domain"
  /\ dom' = [dom EXCEPT ![w] =
                [domain_start |-> domain_start(params.ny, size, w),
                 domain_size |-> domain_size(params.ny, size, w)]]
  /\ jj' = [jj EXCEPT ![w] = domain_start(params.ny, size, w)]
  /\ pc' = [pc EXCEPT ![w] = LoopPc(w, 0, domain_size(params.ny, size, w))]
  /\ UNCHANGED <<config, comm, ii, gi, cells, tmp_cells, av_vels, tt, tot,
                 hAccel, hSend, hRecv, hPost, hStep>>

\* main: if (rank == size - 1) accelerate_flow(params, cells, obstacles)
AccelerateFlow(w) ==
  /\ pc[w] = "accelerate_flow"
  /\ cells' = [cells EXCEPT ![w] = accelerate_flow(params, cells[w], obstacles)]
  /\ hAccel' = hAccel \cup {<<w, tt[w]>>}
  /\ pc' = [pc EXCEPT ![w] = HaloPc(Size(w))]
  /\ UNCHANGED <<fixed, comm, loops, tmp_cells, av_vels, tt, tot,
                 hSend, hRecv, hPost, hStep>>

\* SendRecv, first half: fill sendbuf and hand it to MPI_Sendrecv (a rank
\* that faults while filling it stops there)
HaloSend(w) ==
  /\ pc[w] \in {"send0", "send1"}
  /\ LET step == IF pc[w] = "send0" THEN 0 ELSE 1
         to == HaloTo(step, w, size)
         sendRow == HaloSendRow(step, Start(w), Size(w))
     IN \E sendbuf \in SendBufs(cells[w], sendRow, params.nx, params.ny) :
          /\ chan' = [chan EXCEPT ![<<w, to, step>>] =
                        IF sendbuf = Fault THEN @ ELSE Append(@, sendbuf)]
          /\ hSend' = [hSend EXCEPT ![w] =
                         Append(@, [tag |-> step, to |-> to, iter |-> tt[w],
                                    rows |-> {sendRow}, grid |-> cells[w]])]
          /\ pc' = [pc EXCEPT ![w] =
                      IF sendbuf = Fault THEN "fault"
                      ELSE IF step = 0 THEN "recv0" ELSE "recv1"]
  /\ UNCHANGED <<fixed, loops, cells, tmp_cells, av_vels, tt, red, tot,
                 hAccel, hRecv, hPost, hStep>>

\* SendRecv, second half: MPI_Sendrecv returns and recvbuf is copied in
HaloRecv(w) ==
  /\ pc[w] \in {"recv0", "recv1"}
  /\ LET step == IF pc[w] = "recv0" THEN 0 ELSE 1
         from == HaloFrom(step, w, size)
         receiveRow == HaloReceiveRow(step, Start(w), Size(w), params.ny)
     IN /\ chan[<<from, w, step>>] # <<>>
        /\ LET recvbuf == Head(chan[<<from, w, step>>])
           IN /\ cells' = [cells EXCEPT ![w] =
                             UnpackRow(cells[w], recvbuf, receiveRow, params.nx)]
              /\ hRecv' = [hRecv EXCEPT ![w] =
                             Append(@, [tag |-> step, from |-> from,
                                        iter |-> tt[w], rows |-> {receiveRow},
                                        buf |-> recvbuf])]
        /\ chan' = [chan EXCEPT ![<<from, w, step>>] = Tail(@)]
        /\ hStep' = [hStep EXCEPT ![w].halo = @ + 1]
        /\ pc' = [pc EXCEPT ![w] = IF step = 0 THEN "send1" ELSE PropagatePc(Size(w))]
  /\ UNCHANGED <<fixed, loops, tmp_cells, av_vels, tt, red, tot,
                 hAccel, hSend, hPost>>

\* main: propagate(ii, jj, params, cells, tmp_cells)
Propagate(w) ==
  /\ pc[w] = "propagate"
  /\ tmp_cells' = [tmp_cells EXCEPT ![w] =
                     propagate(ii[w], jj[w], params, cells[w], tmp_cells[w])]
  /\ hStep' = [hStep EXCEPT
                ![w].prop = @ \cup {ii[w] + jj[w] * params.nx},
                ![w].src = IF hStep[w].prop = {} THEN cells[w] ELSE @]
  /\ pc' = [pc EXCEPT ![w] = "rebound"]
  /\ UNCHANGED <<fixed, comm, loops, cells, av_vels, tt, tot,
                 hAccel, hSend, hRecv, hPost>>

\* main: rebound(ii, jj, params, cells, tmp_cells, obstacles), and the
\* loop counters move to the next cell
Rebound(w) ==
  /\ pc[w] = "rebound"
  /\ cells' = [cells EXCEPT ![w] =
                 rebound(ii[w], jj[w], params, cells[w], tmp_cells[w], obstacles)]
  /\ hStep' = [hStep EXCEPT ![w].reb = @ \cup {ii[w] + jj[w] * params.nx}]
  /\ ii' = [ii EXCEPT ![w] = NextII(w)]
  /\ jj' = [jj EXCEPT ![w] = NextJJ(w)]
  /\ pc' = [pc EXCEPT ![w] = IF LastCell(w) THEN "collision" ELSE "propagate"]
  /\ UNCHANGED <<fixed, comm, gi, tmp_cells, av_vels, tt, tot,
                 hAccel, hSend, hRecv, hPost>>

\* main: collision(ii, jj, params, cells, tmp_cells, obstacles)
Collision(w) ==
  /\ pc[w] = "collision"
  /\ cells' = [cells EXCEPT ![w] =
                 collision(ii[w], jj[w], params, cells[w], tmp_cells[w], obstacles)]
  /\ hStep' = [hStep EXCEPT ![w].coll = @ \cup {ii[w] + jj[w] * params.nx}]
  /\ ii' = [ii EXCEPT ![w] = NextII(w)]
  /\ jj' = [jj EXCEPT ![w] = NextJJ(w)]
  /\ pc' = [pc EXCEPT ![w] = IF LastCell(w) THEN "av_velocity" ELSE "collision"]
  /\ UNCHANGED <<fixed, comm, gi, tmp_cells, av_vels, tt, tot,
                 hAccel, hSend, hRecv, hPost>>

\* av_velocity(..., sync = 1) up to its contribution to MPI_Reduce; a rank
\* other than 0 does not wait for the result and returns its local average
AvVelocity(w) ==
  /\ pc[w] = "av_velocity"
  /\ LET pair == av_velocity_local(params, cells[w], obstacles, Start(w), Size(w))
     IN /\ tot' = [tot EXCEPT ![w] = pair]
        /\ hPost' = [hPost EXCEPT ![w] = Append(@, cells[w])]
        /\ IF w = 0
           THEN /\ pc' = [pc EXCEPT ![w] = "MPI_Reduce"]
                /\ UNCHANGED <<red, av_vels, tt, hStep>>
           ELSE /\ red' = [red EXCEPT ![w] = Append(@, pair)]
                /\ av_vels' = [av_vels EXCEPT ![w][tt[w]] = FDiv(pair[1], pair[2])]
                /\ tt' = [tt EXCEPT ![w] = @ + 1]
                /\ hStep' = [hStep EXCEPT ![w] = NoStep]
                /\ pc' = [pc EXCEPT ![w] = LoopPc(w, tt[w] + 1, Size(w))]
  /\ UNCHANGED <<fixed, chan, loops, cells, tmp_cells, hAccel, hSend, hRecv>>

\* rank 0: MPI_Reduce(MPI_SUM) completes, result = recvbuf[0] / recvbuf[1]
Reduce ==
  /\ pc[0] = "MPI_Reduce"
  /\ \A w \in Ranks \ {0} : red[w] # <<>>
  /\ LET recvbuf ==
           <<tot[0][1] + SumFn([w \in Ranks \ {0} |-> Head(red[w])[1]], Ranks \ {0}),
             tot[0][2] + SumFn([w \in Ranks \ {0} |-> Head(red[w])[2]], Ranks \ {0})>>
     IN av_vels' = [av_vels EXCEPT ![0][tt[0]] = FDiv(recvbuf[1], recvbuf[2])]
  /\ red' = [w \in Ranks |-> IF w = 0 THEN red[w] ELSE Tail(red[w])]
  /\ tt' = [tt EXCEPT ![0] = @ + 1]
  /\ hStep' = [hStep EXCEPT ![0] = NoStep]
  /\ pc' = [pc EXCEPT ![0] = LoopPc(0, tt[0] + 1, Size(0))]
  /\ UNCHANGED <<fixed, chan, loops, cells, tmp_cells, tot,
                 hAccel, hSend, hRecv, hPost>>

\* sync_grid, rank != MASTER: one MPI_Send of the rank's rows, tag 2
SyncSend(w) ==
  /\ pc[w] = "sync_send"
  /\ chan' = [chan EXCEPT ![<<w, MASTER, 2>>] =
                Append(@, PackDomain(cells[w], Start(w), Size(w), params.nx))]
  /\ hSend' = [hSend EXCEPT ![w] =
                 Append(@, [tag |-> 2, to |-> MASTER, iter |-> tt[w],
                            rows |-> {Start(w) + j : j \in 0 .. (Size(w) - 1)},
                            grid |-> cells[w]])]
  /\ pc' = [pc EXCEPT ![w] = FinalPc(w)]
  /\ UNCHANGED <<fixed, red, loops, cells, tmp_cells, av_vels, tt, tot,
                 hAccel, hRecv, hPost, hStep>>

\* sync_grid, MASTER: MPI_Recv from rank i and the copy into cells
SyncRecv ==
  /\ pc[MASTER] = "sync_recv"
  /\ chan[<<gi, MASTER, 2>>] # <<>>
  /\ LET rstart == rank_start(params.ny, size, gi)
         rsize == rank_size(params.ny, size, gi)
         recv == Head(chan[<<gi, MASTER, 2>>])
     IN /\ cells' = [cells EXCEPT ![MASTER] =
                       UnpackDomain(cells[MASTER], recv, rstart, rsize, params.nx)]
        /\ hRecv' = [hRecv EXCEPT ![MASTER] =
                       Append(@, [tag |-> 2, from |-> gi, iter |-> tt[MASTER],
                                  rows |-> {rstart + j : j \in 0 .. (rsize - 1)},
                                  buf |-> recv])]
  /\ chan' = [chan EXCEPT ![<<gi, MASTER, 2>>] = Tail(@)]
  /\ gi' = gi + 1
  /\ pc' = [pc EXCEPT ![MASTER] =
              IF gi + 1 < size THEN "sync_recv" ELSE FinalPc(MASTER)]
  /\ UNCHANGED <<fixed, red, ii, jj, tmp_cells, av_vels, tt, tot,
                 hAccel, hSend, hPost, hStep>>

\* main, rank == MASTER: calc_reynolds and write_values.  The obstacle
\* flag of cell (ii, jj) is read at ii * nx + jj; a read past the end of the
\* array may yield either flag.
WriteValues ==
  /\ pc[MASTER] = "write_values"
  /\ LET past == {x \in AllCells : (x % params.nx) * params.nx + (x \div params.nx)
                                     >= params.nx * params.ny}
     IN \E junk \in [past -> {0, 1}] :
          output' =
            [written |-> TRUE,
             reynolds |-> calc_reynolds(params, cells[MASTER], obstacles, params.ny),
             final_state |->
               [x \in AllCells |->
                  FinalStateLine(params, cells[MASTER], obstacles,
                                 x % params.nx, x \div params.nx,
                                 IF x \in past THEN junk[x]
                                 ELSE obstacles[(x % params.nx) * params.nx
                                                  + (x \div params.nx)])],
             av_vels |-> av_vels[MASTER]]
  /\ pc' = [pc EXCEPT ![MASTER] = "finalise"]
  /\ UNCHANGED <<params, size, obstacles, dom, comm, loops, cells, tmp_cells,
                 av_vels, tt, tot, hAccel, hSend, hRecv, hPost, hStep>>

\* finalise: free the buffers (no rank reads them afterwards), MPI_Finalize
Finalise(w) ==
  /\ pc[w] = "finalise"
  /\ pc' = [pc EXCEPT ![w] = "done"]
  /\ UNCHANGED <<fixed, comm, loops, cells, tmp_cells, av_vels, tt, tot,
                 hAccel, hSend, hRecv, hPost, hStep>>

Next ==
  \/ \E w \in Ranks : ComputeDomain(w)
  \/ \E w \in Ranks : AccelerateFlow(w)
  \/ \E w \in Ranks : HaloSend(w)
  \/ \E w \in Ranks : HaloRecv(w)
  \/ \E w \in Ranks : Propagate(w)
  \/ \E w \in Ranks : Rebound(w)
  \/ \E w \in Ranks : Collision(w)
  \/ \E w \in Ranks : AvVelocity(w)
  \/ Reduce
  \/ \E w \in Ranks : SyncSend(w)
  \/ SyncRecv
  \/ WriteValues
  \/ \E w \in Ranks : Finalise(w)

Spec == Init /\ [][Next]_vars

----------------------------------------------------------------------------
\* The program when no send is buffered: a send completes only once the
\* matching receive is posted, and MPI_Reduce returns on no rank before
\* every rank has called it.

\* MPI_Sendrecv posts its send and its receive together: the send of rank w
\* in step `step` is matched once the destination has taken it or stands
\* in the MPI_Sendrecv of the same step, whose receive names w
SendrecvSendBlocking(w, step) == chan[<<w, HaloTo(step, w, size), step>>] = <<>>
SendrecvSendMatched(w, step) ==
  \/ chan[<<w, HaloTo(step, w, size), step>>] = <<>>
  \/ pc[HaloTo(step, w, size)] = (IF step = 0 THEN "recv0" ELSE "recv1")

\* MPI_Sendrecv returns: the row has come in and the send is matched
HaloRecvRv(w) ==
  /\ pc[w] \in {"recv0", "recv1"}
  /\ SendrecvSendMatched(w, IF pc[w] = "recv0" THEN 0 ELSE 1)
  /\ HaloRecv(w)

\* rank v has called the MPI_Reduce of iteration t, or is about to
ReachedReduce(v, t) ==
  \/ tt[v] > t
  \/ tt[v] = t /\ pc[v] \in {"av_velocity", "MPI_Reduce"}

AvVelocityRv(w) ==
  /\ w # MASTER => \A v \in Ranks : ReachedReduce(v, tt[w])
  /\ AvVelocity(w)

\* MPI_Send of sync_grid returns once rank 0 has posted the receive from w
SyncSendRv(w) ==
  /\ pc[MASTER] = "sync_recv"
  /\ gi = w
  /\ SyncSend(w)

NextRv ==
  \/ \E w \in Ranks : ComputeDomain(w)
  \/ \E w \in Ranks : AccelerateFlow(w)
  \/ \E w \in Ranks : HaloSend(w)
  \/ \E w \in Ranks : HaloRecvRv(w)
  \/ \E w \in Ranks : Propagate(w)
  \/ \E w \in Ranks : Rebound(w)
  \/ \E w \in Ranks : Collision(w)
  \/ \E w \in Ranks : AvVelocityRv(w)
  \/ Reduce
  \/ \E w \in Ranks : SyncSendRv(w)
  \/ SyncRecv
  \/ WriteValues
  \/ \E w \in Ranks : Finalise(w)

\* blocking depends neither on the number of columns nor on the obstacles
RvParamSet ==
  [nx : {1}, ny : 2 .. MaxRvNY, maxIters : 0 .. MaxRvIters, reynolds_dim : {2},
   density : {360}, accel : {[num |-> 1, den |-> 10]},
   omega : {[num |-> 3, den |-> 2]}]

InitRv ==
  \E p \in RvParamSet :
    \E n \in 1 .. (IF MaxRvRanks < p.ny THEN MaxRvRanks ELSE p.ny) :
      InitState(p, n, {})

\* the ranks are running processes: while some rank can take a step, a
\* step is taken
SpecRv == InitRv /\ [][NextRv]_vars /\ WF_vars(NextRv)

----------------------------------------------------------------------------
\* The domain computation alone, for any number of rows and of ranks
\* (also more ranks than rows): every rank runs the loop of main.

PartParamSet ==
  [nx : {1}, ny : 1 .. MaxPartNY, maxIters : {0}, reynolds_dim : {2},
   density : {360}, accel : {[num |-> 1, den |-> 10]},
   omega : {[num |-> 3, den |-> 2]}]

InitPart ==
  \E p \in PartParamSet : \E n \in 1 .. MaxPartRanks : InitState(p, n, {})

NextPart == \E w \in Ranks : ComputeDomain(w)

SpecPart == InitPart /\ [][NextPart]_vars

----------------------------------------------------------------------------
\* The kernels of one iteration on one rank, entered with any grid: the
\* grid an earlier iteration may have left.  Every value of a grid is
\* different from every other, but for directions 3, 6 and 7 of the first
\* cell of the forced row, which take the values around w1 and w2 that
\* accelerate_flow tests.  The rest grid of initialise is entered as well,
\* with several densities and relaxation parameters and no forcing.

AccelW1(p) == (p.density * p.accel.num) \div (9 * p.accel.den)
AccelW2(p) == (p.density * p.accel.num) \div (36 * p.accel.den)

ProbeCell(p) == (p.ny - 2) * p.nx

ProbeValues(p) ==
  {t \in [{3, 6, 7} -> 0 .. (AccelW1(p) + 1)] :
     /\ t[3] \in {AccelW1(p) - 1, AccelW1(p), AccelW1(p) + 1}
     /\ t[6] \in {AccelW2(p) - 1, AccelW2(p), AccelW2(p) + 1}
     /\ t[7] \in {AccelW2(p) - 1, AccelW2(p), AccelW2(p) + 1}}

KernelGrids(p) ==
  {[x \in 0 .. (p.nx * p.ny - 1) |->
      [kk \in Dirs |->
         IF x = ProbeCell(p) /\ kk \in {3, 6, 7} THEN t[kk]
         ELSE 20 + NSPEEDS * x + kk]] : t \in ProbeValues(p)}

KernelObstacleFiles(p) == {{}, {<<0, p.ny - 2>>}, {<<0, p.ny - 1>>}}

KernelParamSet ==
  [nx : 1 .. MaxKerNX, ny : 2 .. MaxKerNY, maxIters : {1}, reynolds_dim : {2},
   density : {360}, accel : {[num |-> 1, den |-> 10]},
   omega : {[num |-> 3, den |-> 2]}]

RestParamSet ==
  [nx : 1 .. MaxKerNX, ny : 2 .. MaxKerNY, maxIters : {1}, reynolds_dim : {2},
   density : {36, 360}, accel : {[num |-> 0, den |-> 10]},
   omega : {[num |-> 1, den |-> 2], [num |-> 1, den |-> 1],
            [num |-> 3, den |-> 2], [num |-> 19, den |-> 10]}]

InitKernels ==
  \/ \E p \in KernelParamSet :
       \E blocked \in KernelObstacleFiles(p) :
         \E g \in KernelGrids(p) : InitWith(p, 1, blocked, g)
  \/ \E p \in RestParamSet : InitState(p, 1, {})

NextKernels ==
  \/ \E w \in Ranks : ComputeDomain(w)
  \/ \E w \in Ranks : AccelerateFlow(w)
  \/ \E w \in Ranks : Propagate(w)
  \/ \E w \in Ranks : Rebound(w)
  \/ \E w \in Ranks : Collision(w)

SpecKernels == InitKernels /\ [][NextKernels]_vars

----------------------------------------------------------------------------
\* The whole program without forcing and without obstacles, the loop being
\* entered with a grid that is not uniform: the rest distribution plus a
\* small amount that differs from cell to cell and direction to direction.

FreeGrid(p) ==
  [x \in 0 .. (p.nx * p.ny - 1) |->
     [kk \in Dirs |-> InitSpeeds(p)[kk] + ((7 * x + 3 * kk) % 5)]]

FreeParamSet ==
  [nx : {2}, ny : 2 .. MaxFreeNY, maxIters : {MaxFreeIters}, reynolds_dim : {2},
   density : {360}, accel : {[num |-> 0, den |-> 10]},
   omega : {[num |-> 3, den |-> 2]}]

InitFree ==
  \E p \in FreeParamSet :
    \E n \in 1 .. (IF MaxFreeRanks < p.ny THEN MaxFreeRanks ELSE p.ny) :
      InitWith(p, n, {}, FreeGrid(p))

SpecFree == InitFree /\ [][Next]_vars

----------------------------------------------------------------------------
\* The whole program started with any number of ranks from 2 on, also
\* more ranks than rows, on a grid of two rows and one column.

WideParamSet ==
  [nx : {1}, ny : {2}, maxIters : {1}, reynolds_dim : {2},
   density : {360}, accel : {[num |-> 1, den |-> 10]},
   omega : {[num |-> 3, den |-> 2]}]

InitWide ==
  \E p \in WideParamSet : \E n \in 2 .. MaxWideRanks : InitState(p, n, {})

SpecWide == InitWide /\ [][Next]_vars

----------------------------------------------------------------------------
\* vocabulary of the properties

Rows == 0 .. (params.ny - 1)
RowOf(x) == x \div params.nx
RowCells(r) == {x \in AllCells : RowOf(x) = r}

\* the rows of the half-open range [start, start + len)
Range(start, len) == {start + k : k \in 0 .. (len - 1)}
OwnedRows(w) == Range(Start(w), Size(w))
OwnedCells(w) == {x \in AllCells : RowOf(x) \in OwnedRows(w)}
Owners(r) == {w \in Ranks : r \in OwnedRows(w)}
Owner(r) == CHOOSE w \in Ranks : r \in OwnedRows(w)

\* two grids agree on row r, in all columns and directions
SameRow(c, d, r) == \A x \in RowCells(r) : c[x] = d[x]

DomainsComputed == \A w \in Ranks : pc[w] # "domain"

----------------------------------------------------------------------------
\* The run with one rank, as a function of the input: the loop body of main
\* with size = 1 and rank = 0 (accelerate_flow runs, halo_exchange and
\* sync_grid do nothing, the domain is all rows, the reduction has one
\* contribution).

\* for jj, for ii: propagate(ii, jj); rebound(ii, jj)   -- from cell k on
RECURSIVE SerialStream(_, _, _, _, _)
SerialStream(k, p, c, t, obs) ==
  IF k < p.nx * p.ny
  THEN LET t2 == propagate(k % p.nx, k \div p.nx, p, c, t)
           c2 == rebound(k % p.nx, k \div p.nx, p, c, t2, obs)
       IN SerialStream(k + 1, p, c2, t2, obs)
  ELSE [cells |-> c, tmp_cells |-> t]

\* for jj, for ii: collision(ii, jj)   -- from cell k on
RECURSIVE SerialCollide(_, _, _, _, _)
SerialCollide(k, p, c, t, obs) ==
  IF k < p.nx * p.ny
  THEN SerialCollide(k + 1, p,
                     collision(k % p.nx, k \div p.nx, p, c, t, obs), t, obs)
  ELSE c

\* iterations n .. maxIters-1 on the state g = [cells, tmp_cells, av_vels]
RECURSIVE SerialRun(_, _, _, _)
SerialRun(n, p, g, obs) ==
  IF n < p.maxIters
  THEN LET a == accelerate_flow(p, g.cells, obs)
           s == SerialStream(0, p, a, g.tmp_cells, obs)
           c == SerialCollide(0, p, s.cells, s.tmp_cells, obs)
           pair == av_velocity_local(p, c, obs, 0, p.ny)
       IN SerialRun(n + 1, p,
                    [cells |-> c, tmp_cells |-> s.tmp_cells,
                     av_vels |-> [g.av_vels EXCEPT
                                    ![n] = FDiv(pair[1], pair[2])]],
                    obs)
  ELSE g

SerialResult ==
  SerialRun(0, params,
            [cells |-> InitCells(params),
             tmp_cells |-> [x \in AllCells |-> [kk \in Dirs |-> 0]],
             av_vels |-> [t \in 0 .. (params.maxIters - 1) |-> Unset]],
            obstacles)

\* rank 0 is past the iteration loop and past sync_grid
Gathered == pc[MASTER] \in {"write_values", "finalise", "done"}

----------------------------------------------------------------------------
\* C1: for the same configuration and obstacle mask, the run with N ranks
\* ends with the same grid at rank 0 (after the gather) and the same av_vels
\* at rank 0 as the run with one rank.
C1_SameAsOneRank ==
  Gathered =>
    /\ cells[MASTER] = SerialResult.cells
    /\ av_vels[MASTER] = SerialResult.av_vels

----------------------------------------------------------------------------
\* C2: in every iteration the rank that applies accelerate_flow is the rank
\* whose rows [start, start + size) contain the forced row ny - 2, and no
\* other rank applies it.
C2_AccelByOwner ==
  \A w \in Ranks :
    /\ \A t \in 0 .. (params.maxIters - 1) :
         <<w, t>> \in hAccel => (params.ny - 2) \in OwnedRows(w)
    /\ \A t \in 0 .. (tt[w] - 1) :
         (params.ny - 2) \in OwnedRows(w) => <<w, t>> \in hAccel

----------------------------------------------------------------------------
\* the rows just outside the rows of rank w, wrapping modulo ny
RowBefore(w) == (Start(w) + params.ny - 1) % params.ny
RowAfter(w) == (Start(w) + Size(w)) % params.ny

\* the halo sends of rank o in iteration t that carried row r
HaloSends(o, t, r) ==
  {k \in 1 .. Len(hSend[o]) :
     /\ hSend[o][k].iter = t
     /\ hSend[o][k].tag \in {0, 1}
     /\ r \in hSend[o][k].rows}

\* the grid of rank o after the collisions of iteration t - 1 and the
\* forcing, if rank o applied any, of iteration t
GridBeforeHalo(o, t) ==
  LET base == IF t = 0 THEN InitCells(params) ELSE hPost[o][t]
  IN IF <<o, t>> \in hAccel
     THEN accelerate_flow(params, base, obstacles)
     ELSE base

StartsPropagate(w) == pc[w] = "propagate" /\ hStep[w].prop = {}

\* C3: with more than one rank, when a rank starts propagate in iteration t,
\* the row before and the row after its own rows hold, in its grid, what
\* those rows held in their owners' grids when the owners sent them in
\* iteration t: the owners' state after the collisions of iteration t - 1
\* plus the owners' forcing of iteration t.
C3_HaloRowsCurrent ==
  \A w \in Ranks :
    (size > 1 /\ StartsPropagate(w)) =>
      \A r \in {RowBefore(w), RowAfter(w)} :
        LET o == Owner(r)
        IN /\ o # w
           /\ HaloSends(o, tt[w], r) # {}
           /\ \A k \in HaloSends(o, tt[w], r) :
                SameRow(cells[w], hSend[o][k].grid, r)
           /\ SameRow(cells[w], GridBeforeHalo(o, tt[w]), r)

\* a rank starts propagate in the second iteration, holding two different
\* halo rows with different contents
C3_Witness ==
  \E w \in Ranks :
    /\ size > 1
    /\ StartsPropagate(w)
    /\ tt[w] = 1
    /\ RowBefore(w) # RowAfter(w)
    /\ \E x \in RowCells(RowBefore(w)), y \in RowCells(RowAfter(w)) :
         cells[w][x] # cells[w][y]

----------------------------------------------------------------------------
Pred(w) == (w + size - 1) % size
Succ(w) == (w + 1) % size

\* the halo messages of a rank come in pairs, tag 0 then tag 1, one pair per
\* iteration; its sends are: first row to the predecessor with tag 0, last
\* row to the successor with tag 1
HaloSendsAsStated(w) ==
  \A k \in 1 .. Len(hSend[w]) :
    LET e == hSend[w][k]
    IN e.tag \in {0, 1} =>
         /\ e.tag = (k - 1) % 2
         /\ e.iter = (k - 1) \div 2
         /\ e.tag = 0 => (e.to = Pred(w) /\ e.rows = {Start(w)})
         /\ e.tag = 1 => (e.to = Succ(w) /\ e.rows = {Start(w) + Size(w) - 1})

\* the receives: tag 0 from the successor stored into row0, tag 1 from the
\* predecessor stored into row1
HaloRecvsInto(w, row0, row1) ==
  \A k \in 1 .. Len(hRecv[w]) :
    LET e == hRecv[w][k]
    IN e.tag \in {0, 1} =>
         /\ e.tag = (k - 1) % 2
         /\ e.iter = (k - 1) \div 2
         /\ e.tag = 0 => (e.from = Succ(w) /\ e.rows = {row0})
         /\ e.tag = 1 => (e.from = Pred(w) /\ e.rows = {row1})

----------------------------------------------------------------------------
\* the grid of rank o at the end of its last iteration
LastGrid(o) ==
  IF params.maxIters = 0 THEN InitCells(params) ELSE hPost[o][params.maxIters]

GatherSends(w) == {k \in 1 .. Len(hSend[w]) : hSend[w][k].tag = 2}

\* C5: with more than one rank, after sync_grid every row r of the grid of
\* rank 0 equals row r of the grid of the rank that owns r as it stood at
\* the end of that rank's last iteration; every other rank sent exactly one
\* message, to rank 0, made of exactly its own rows.
C5_GatherComplete ==
  /\ \A w \in Ranks \ {MASTER} :
       \A k \in 1 .. Len(chan[<<w, MASTER, 2>>]) :
         DOMAIN chan[<<w, MASTER, 2>>][k] =
           0 .. (params.nx * Size(w) * NSPEEDS - 1)
  /\ (size > 1 /\ Gathered) =>
       /\ \A r \in Rows : SameRow(cells[MASTER], LastGrid(Owner(r)), r)
       /\ \A w \in Ranks \ {MASTER} :
            /\ Cardinality(GatherSends(w)) = 1
            /\ \A k \in GatherSends(w) :
                 /\ hSend[w][k].to = MASTER
                 /\ hSend[w][k].rows = OwnedRows(w)
                 /\ hSend[w][k].grid = LastGrid(w)

\* the gather is over after two iterations, and rank 0 holds a row of
\* another rank that differs from the initial row
C5_Witness ==
  /\ size > 1
  /\ Gathered
  /\ params.maxIters = 2
  /\ \E x \in AllCells :
       /\ x \notin OwnedCells(MASTER)
       /\ cells[MASTER][x] # InitSpeeds(params)

----------------------------------------------------------------------------
\* C6: in every iteration on every rank, propagate has run for all cells of
\* the rank before rebound runs for any of them.
C6_PropagateAllBeforeRebound ==
  \A w \in Ranks : pc[w] = "rebound" => hStep[w].prop = OwnedCells(w)

----------------------------------------------------------------------------
\* <<sum of velocity magnitudes, number of cells>> over the non-obstacle
\* cells of the rows of rank w in grid g
LocalPair(w, g) ==
  LET F == {x \in OwnedCells(w) : obstacles[x] = 0}
  IN <<SumFn([x \in F |-> CellSpeed(g[x])], F), Cardinality(F)>>

\* C7: for every iteration t, av_vels[t] at rank 0 is the sum over all ranks
\* of their local velocity sums divided by the sum of their local cell
\* counts, each computed over the rank's own rows of its grid after the
\* collisions of iteration t; the summed count is the number of
\* non-obstacle cells of the whole grid.
C7_GlobalAverage ==
  \A t \in 0 .. (tt[MASTER] - 1) :
    LET pairs == [w \in Ranks |-> LocalPair(w, hPost[w][t + 1])]
        sum == SumFn([w \in Ranks |-> pairs[w][1]], Ranks)
        count == SumFn([w \in Ranks |-> pairs[w][2]], Ranks)
    IN /\ count = Cardinality({x \in AllCells : obstacles[x] = 0})
       /\ av_vels[MASTER][t] = FDiv(sum, count)

\* rank 0 has stored two entries, the second a non-zero average over
\* several ranks and a grid with an obstacle
C7_Witness ==
  /\ size > 1
  /\ tt[MASTER] = 2
  /\ \E x \in AllCells : obstacles[x] # 0
  /\ av_vels[MASTER][1].k = "num"
  /\ av_vels[MASTER][1].v > 0
  /\ av_vels[MASTER][0] # av_vels[MASTER][1]

----------------------------------------------------------------------------
\* the tags of the halo receives rank w has stored in iteration t
HaloStored(w, t) ==
  {hRecv[w][k].tag : k \in {n \in 1 .. Len(hRecv[w]) : hRecv[w][n].iter = t}}

\* C9: on every rank and in every iteration the steps come in the order
\* accelerate_flow (if the rank runs it), the two halo send-receives with
\* their rows stored, propagate and rebound over the rank's cells, collision
\* over the rank's cells, the reduction: no propagate runs before both
\* receives of the iteration are stored, and no collision runs before every
\* propagate of the iteration has run.
C9_StepOrder ==
  \A w \in Ranks :
    /\ pc[w] = "accelerate_flow" =>
         /\ hStep[w] = NoStep
         /\ \A k \in 1 .. Len(hSend[w]) : hSend[w][k].iter # tt[w]
    /\ pc[w] \in {"send0", "recv0", "send1", "recv1"} =>
         (hStep[w].prop = {} /\ hStep[w].reb = {} /\ hStep[w].coll = {})
    /\ pc[w] \in {"propagate", "rebound"} =>
         /\ size > 1 => (hStep[w].halo = 2 /\ HaloStored(w, tt[w]) = {0, 1})
         /\ hStep[w].coll = {}
    /\ pc[w] = "collision" =>
         (hStep[w].prop = OwnedCells(w) /\ hStep[w].reb = OwnedCells(w))
    /\ pc[w] \in {"av_velocity", "MPI_Reduce"} =>
         /\ size > 1 => HaloStored(w, tt[w]) = {0, 1}
         /\ hStep[w].prop = OwnedCells(w)
         /\ hStep[w].coll = OwnedCells(w)
    /\ \A t \in 0 .. (params.maxIters - 1) :
         <<w, t>> \in hAccel => (t < tt[w] \/ (t = tt[w] /\ pc[w] # "accelerate_flow"))

\* the rank that ran accelerate_flow is in the collision loop of its second
\* iteration, after a halo exchange
C9_Witness ==
  \E w \in Ranks :
    /\ size > 1
    /\ pc[w] = "collision"
    /\ tt[w] = 1
    /\ <<w, 1>> \in hAccel
    /\ hStep[w].coll # {}

----------------------------------------------------------------------------
\* the grid of rank w when its current iteration began
GridAtIterationStart(w) ==
  IF tt[w] = 0 THEN InitCells(params) ELSE hPost[w][tt[w]]

\* C10: for every obstacle cell of a rank, from its rebound to the end of
\* the iteration, directions 1..8 of the current grid equal directions
\* 3,4,1,2,7,8,5,6 of the scratch grid of the same cell; direction 0 is as
\* it was when the iteration began; collision leaves the cell as is.
C10_BounceBack ==
  \A w \in Ranks :
    \A x \in hStep[w].reb :
      obstacles[x] # 0 =>
        /\ x \in hStep[w].prop
        /\ cells[w][x][1] = tmp_cells[w][x][3]
        /\ cells[w][x][2] = tmp_cells[w][x][4]
        /\ cells[w][x][3] = tmp_cells[w][x][1]
        /\ cells[w][x][4] = tmp_cells[w][x][2]
        /\ cells[w][x][5] = tmp_cells[w][x][7]
        /\ cells[w][x][6] = tmp_cells[w][x][8]
        /\ cells[w][x][7] = tmp_cells[w][x][5]
        /\ cells[w][x][8] = tmp_cells[w][x][6]
        /\ cells[w][x][0] = GridAtIterationStart(w)[x][0]

\* the collision loop of a rank is over, with an obstacle cell whose
\* scratch values are not symmetric
C10_Witness ==
  \E w \in Ranks :
    \E x \in hStep[w].coll :
      /\ pc[w] = "av_velocity"
      /\ obstacles[x] # 0
      /\ tmp_cells[w][x][1] # tmp_cells[w][x][3]
      /\ tmp_cells[w][x][5] # tmp_cells[w][x][7]

----------------------------------------------------------------------------
\* C8: for every ny >= 1 and every number of ranks >= 1, the (start, size)
\* pairs computed for ranks 0 .. size-1 are half-open ranges whose union is
\* [0, ny), every row lies in exactly one range, and any two sizes differ by
\* at most 1.
C8_PartitionExact ==
  DomainsComputed =>
    /\ \A w \in Ranks : OwnedRows(w) \subseteq Rows
    /\ \A r \in Rows : Cardinality(Owners(r)) = 1
    /\ \A w, v \in Ranks : Size(w) - Size(v) <= 1

\* all domains computed, with an uneven split
C8_Witness ==
  /\ DomainsComputed
  /\ \E w, v \in Ranks : Size(w) = 2 /\ Size(v) = 1

----------------------------------------------------------------------------
\* the lattice offsets (dx, dy) of the nine directions
OffsetX(kk) ==
  CASE kk \in {1, 5, 8} -> 1 [] kk \in {3, 6, 7} -> -1 [] OTHER -> 0
OffsetY(kk) ==
  CASE kk \in {2, 5, 6} -> 1 [] kk \in {4, 7, 8} -> -1 [] OTHER -> 0

\* the cell direction kk of cell (i, j) is copied from
UpwindCell(i, j, kk) ==
  ((i - OffsetX(kk)) % params.nx) + ((j - OffsetY(kk)) % params.ny) * params.nx

\* C11: propagate(ii, jj) sets scratch[ii, jj][k], for every direction k
\* with offset (dx, dy), to current[(ii - dx) mod nx, (jj - dy) mod ny][k];
\* every cell it reads is inside the grid; it changes no cell of the
\* current grid and no scratch cell other than (ii, jj).
C11_PropagateUpwind ==
  [][\A w \in Ranks :
       (pc[w] = "propagate" /\ pc'[w] = "rebound") =>
         /\ \A kk \in Dirs :
              /\ UpwindCell(ii[w], jj[w], kk) \in AllCells
              /\ tmp_cells'[w][ii[w] + jj[w] * params.nx][kk] =
                   cells[w][UpwindCell(ii[w], jj[w], kk)][kk]
         /\ cells' = cells
         /\ \A x \in AllCells \ {ii[w] + jj[w] * params.nx} :
              tmp_cells'[w][x] = tmp_cells[w][x]]_vars

\* propagate has run for the last cell of a grid of three columns and three
\* rows whose values all differ, wrapping in both directions
C11_Witness ==
  \E w \in Ranks :
    /\ params.nx = 3
    /\ params.ny = 3
    /\ pc[w] = "rebound"
    /\ ii[w] = 2
    /\ jj[w] = 2
    /\ tmp_cells[w][8][5] = hStep[w].src[4][5]
    /\ tmp_cells[w][8][7] = hStep[w].src[0][7]
    /\ tmp_cells[w][8][5] # tmp_cells[w][8][7]

----------------------------------------------------------------------------
\* the cell s after the forcing
Forced(s, w1, w2) ==
  [kk \in Dirs |->
     CASE kk = 1 -> s[1] + w1
       [] kk \in {5, 8} -> s[kk] + w2
       [] kk = 3 -> s[3] - w1
       [] kk \in {6, 7} -> s[kk] - w2
       [] OTHER -> s[kk]]

\* C12: accelerate_flow changes a cell of row ny - 2 exactly when the cell
\* is no obstacle and none of speeds[3] - w1, speeds[6] - w2, speeds[7] - w2
\* would be negative; it then adds w1 to direction 1 and w2 to directions 5
\* and 8 and subtracts w1 from direction 3 and w2 from directions 6 and 7;
\* every other cell, in row ny - 2 or outside it, is left as it was.
C12_AccelerateUnlessNegative ==
  [][\A w \in Ranks :
       (pc[w] = "accelerate_flow" /\ pc'[w] # "accelerate_flow") =>
         \A x \in AllCells :
           LET s == cells[w][x]
               w1 == AccelW1(params)
               w2 == AccelW2(params)
           IN IF /\ RowOf(x) = params.ny - 2
                 /\ obstacles[x] = 0
                 /\ s[3] - w1 >= 0
                 /\ s[6] - w2 >= 0
                 /\ s[7] - w2 >= 0
              THEN /\ cells'[w][x] = Forced(s, w1, w2)
                   /\ local_density(cells'[w][x]) = local_density(s)
              ELSE cells'[w][x] = s]_vars

----------------------------------------------------------------------------
\* C13: for every ny and more than one rank, the (start, size) rank 0
\* computes in sync_grid for a rank i other than 0 are the (domain_start,
\* domain_size) rank i computed for itself in main, so the number of
\* elements rank 0 expects from i is the number i sends, nx * size * 9.
C13_GatherRangesAgree ==
  \A i \in Ranks \ {MASTER} :
    pc[i] # "domain" =>
      /\ rank_start(params.ny, size, i) = Start(i)
      /\ rank_size(params.ny, size, i) = Size(i)
      /\ params.nx * rank_size(params.ny, size, i) * NSPEEDS =
           params.nx * Size(i) * NSPEEDS
      /\ DOMAIN PackDomain(cells[i], Start(i), Size(i), params.nx) =
           0 .. (params.nx * rank_size(params.ny, size, i) * NSPEEDS - 1)

\* the rows do not divide evenly: some rank other than 0 has two rows, a
\* later one has one
C13_Witness ==
  /\ DomainsComputed
  /\ \E i, k \in Ranks \ {MASTER} :
       i < k /\ Size(i) = 2 /\ Size(k) = 1 /\ Start(k) > k

----------------------------------------------------------------------------
\* the entries of av_vels at rank 0 that hold a result
Written(av) == {t \in DOMAIN av : av[t].k # "unset"}

AfterLoop(w) ==
  pc[w] \in {"sync_send", "sync_recv", "write_values", "finalise", "done"}

\* C14: at rank 0, iteration t writes entry t of av_vels and no other
\* entry; entries 0 .. t-1 never change after their iteration; the entries
\* written so far are exactly those below the iteration counter, which goes
\* up by one with every write; when the loop ends, exactly the maxIters
\* entries 0 .. maxIters-1 have been written.
C14_AvVelsInOrder ==
  [][/\ \A t \in DOMAIN av_vels[MASTER] :
          av_vels'[MASTER][t] # av_vels[MASTER][t] =>
            (t = tt[MASTER] /\ tt'[MASTER] = t + 1 /\ t \notin Written(av_vels[MASTER]))
     /\ DOMAIN av_vels'[MASTER] = 0 .. (params.maxIters - 1)
     /\ tt'[MASTER] # tt[MASTER] =>
          (tt'[MASTER] = tt[MASTER] + 1 /\ tt[MASTER] \in Written(av_vels'[MASTER]))
     /\ Written(av_vels'[MASTER]) = 0 .. (tt'[MASTER] - 1)
     /\ AfterLoop(MASTER)' => tt'[MASTER] = params.maxIters]_vars

\* rank 0 has left the loop with two entries written, of different values
C14_Witness ==
  /\ AfterLoop(MASTER)
  /\ size > 1
  /\ Written(av_vels[MASTER]) = {0, 1}
  /\ av_vels[MASTER][0] # av_vels[MASTER][1]

----------------------------------------------------------------------------
\* the sum of all 9 components over the cells of rank w in grid g
OwnedTotal(w, g) ==
  SumFn([x \in OwnedCells(w) |-> local_density(g[x])], OwnedCells(w))

\* the grid of rank w when iteration t begins, the loop being entered with
\* FreeGrid
FreeGridAt(w, t) == IF t = 0 THEN FreeGrid(params) ELSE hPost[w][t]

\* rank w has run every propagate of iteration t and none of iteration t + 1
Streamed(w, t) ==
  \/ tt[w] = t /\ pc[w] \in {"collision", "av_velocity", "MPI_Reduce"}
  \/ /\ tt[w] = t + 1
     /\ \/ pc[w] \in {"accelerate_flow", "send0", "recv0", "send1", "recv1"}
        \/ StartsPropagate(w)
        \/ AfterLoop(w)

\* C15: with no obstacle and zero acceleration, for 1 to ny ranks, the sum
\* of all 9 components over all cells, each row taken from the rank that
\* owns it, is after an iteration what it was before: propagate leaves the
\* sum over all ranks as it was, and collision leaves the sum of every cell
\* as it was in exact arithmetic (the equilibrium values, as fractions, add
\* up to the local density); the values the model rounds down to whole
\* units lose less than three units per component.
C15_TotalDensityKept ==
  /\ \A t \in 0 .. (params.maxIters - 1) :
       (\A w \in Ranks : Streamed(w, t)) =>
         SumFn([w \in Ranks |-> OwnedTotal(w, tmp_cells[w])], Ranks) =
           SumFn([w \in Ranks |-> OwnedTotal(w, FreeGridAt(w, t))], Ranks)
  /\ \A w \in Ranks :
       \A x \in hStep[w].coll :
         LET s == tmp_cells[w][x]
         IN /\ SumFn([kk \in Dirs |-> d_equNum(kk, s)], Dirs) =
                 d_equDen(s) * local_density(s)
            /\ local_density(cells[w][x]) <= local_density(s)
            /\ local_density(cells[w][x]) > local_density(s) - 3 * NSPEEDS

\* every rank of three has run the propagates of the second iteration on a
\* grid whose rows carry different totals, and one has collided a cell
C15_Witness ==
  /\ size = 3
  /\ \A w \in Ranks : Streamed(w, 1)
  /\ \E w \in Ranks : hStep[w].coll # {}
  /\ \E w, v \in Ranks : OwnedTotal(w, tmp_cells[w]) # OwnedTotal(v, tmp_cells[v])
  /\ \E w \in Ranks : OwnedTotal(w, tmp_cells[w]) # OwnedTotal(w, FreeGridAt(w, 1))

----------------------------------------------------------------------------
\* the cell s holds the at-rest distribution of its density d: 4/9 d in
\* direction 0, 1/9 d in directions 1-4, 1/36 d in directions 5-8
AtRest(s) ==
  LET d == local_density(s)
  IN /\ 9 * s[0] = 4 * d
     /\ \A kk \in 1 .. 4 : 9 * s[kk] = d
     /\ \A kk \in 5 .. 8 : 36 * s[kk] = d

UniformAtRest(g) ==
  /\ \A x \in DOMAIN g : AtRest(g[x]) /\ local_density(g[x]) > 0
  /\ \A x, y \in DOMAIN g : g[x] = g[y]

NoObstacle == \A x \in AllCells : obstacles[x] = 0

\* C16: a uniform grid without obstacles in which every cell holds the
\* at-rest distribution of density d is a fixed point of propagate and
\* collision: every cell propagate has written and every cell collision has
\* written holds, in every direction, the weight of the direction times d,
\* whatever omega is.
C16_RestIsFixedPoint ==
  \A w \in Ranks :
    (NoObstacle /\ hStep[w].prop # {} /\ UniformAtRest(hStep[w].src)) =>
      /\ \A x \in hStep[w].prop :
           AtRest(tmp_cells[w][x]) /\ tmp_cells[w][x] = hStep[w].src[x]
      /\ \A x \in hStep[w].coll :
           AtRest(cells[w][x]) /\ cells[w][x] = hStep[w].src[x]

\* the collisions of a uniform grid at rest are over, omega being 19/10
C16_Witness ==
  \E w \in Ranks :
    /\ NoObstacle
    /\ pc[w] = "av_velocity"
    /\ hStep[w].coll = AllCells
    /\ UniformAtRest(hStep[w].src)
    /\ params.omega = [num |-> 19, den |-> 10]
    /\ params.nx = 3

----------------------------------------------------------------------------
NoMessage ==
  /\ \A c \in DOMAIN chan : chan[c] = <<>>
  /\ \A w \in Ranks : hSend[w] = <<>> /\ hRecv[w] = <<>>

InHaloOrGather(w) ==
  pc[w] \in {"send0", "recv0", "send1", "recv1", "sync_send", "sync_recv"}

\* C17: with one rank, halo_exchange and sync_grid send no message, receive
\* none and change no cell of the current or the scratch grid, in any
\* iteration: the rank never enters either, and every change of a grid is
\* made by accelerate_flow, propagate, rebound or collision.
C17_OneRankNoExchange ==
  [][size = 1 =>
       /\ NoMessage'
       /\ \A w \in Ranks : ~InHaloOrGather(w) /\ ~InHaloOrGather(w)'
       /\ (cells' # cells \/ tmp_cells' # tmp_cells) =>
            pc[MASTER] \in {"accelerate_flow", "propagate", "rebound", "collision"}]_vars

\* the one rank has gone through two iterations, which changed its grid,
\* and past the place of sync_grid
C17_Witness ==
  /\ size = 1
  /\ pc[MASTER] = "done"
  /\ tt[MASTER] = 2
  /\ cells[MASTER] # InitCells(params)
  /\ NoMessage

----------------------------------------------------------------------------
\* C18: in every iteration every value propagate has copied into the
\* scratch grid is the value its source slot held in the rank's current grid
\* when the halo exchange of the iteration completed (the grid the first
\* propagate of the iteration found), and no propagate is about to read a
\* cell that a rebound of the same iteration has overwritten, for any
\* obstacle mask.
C18_PropagateReadsPreRebound ==
  \A w \in Ranks :
    /\ \A x \in hStep[w].prop :
         \A kk \in Dirs :
           tmp_cells[w][x][kk] =
             hStep[w].src[UpwindCell(x % params.nx, x \div params.nx, kk)][kk]
    /\ pc[w] = "propagate" =>
         \A kk \in 1 .. 8 :
           LET y == UpwindCell(ii[w], jj[w], kk)
           IN ~(y \in hStep[w].reb /\ obstacles[y] # 0)

----------------------------------------------------------------------------
AllDone == \A w \in Ranks : pc[w] = "done"

\* C19: for 1 to ny ranks and any maxIters >= 0, with sends that block until
\* the matching receive is posted, every rank completes its maxIters
\* iterations and the gather and reaches the end of finalise: every halo
\* send-receive, every reduction and every gather send and receive finds
\* its counterpart, and no state short of the end is a deadlock.
\* (a run that stops in a state where no rank can take a step is a run in
\* which not every rank finishes)
C19_AllRanksFinish ==
  <>(AllDone /\ \A w \in Ranks : tt[w] = params.maxIters)

\* three ranks have finished an iteration, with its two halo exchanges on
\* every rank, and the gather of two messages
C19_Witness ==
  /\ size = 3
  /\ params.maxIters = 1
  /\ AllDone
  /\ \A w \in Ranks : Len(hRecv[w]) >= 2
  /\ Len(hRecv[MASTER]) = 4

----------------------------------------------------------------------------
\* the sends of rank o to rank w with tag g, and those of iteration t
SendsTo(o, w, g) ==
  {j \in 1 .. Len(hSend[o]) : hSend[o][j].tag = g /\ hSend[o][j].to = w}
SendsIn(o, w, g, t) == {j \in SendsTo(o, w, g) : hSend[o][j].iter = t}

\* the receives of rank w from rank o with tag g
RecvsFrom(w, o, g) ==
  {k \in 1 .. Len(hRecv[w]) : hRecv[w][k].tag = g /\ hRecv[w][k].from = o}

\* buffer buf holds rows r, r + 1, .. of grid g, n values in all
HoldsRows(buf, g, r, n) ==
  /\ DOMAIN buf = 0 .. (n - 1)
  /\ \A x \in 0 .. (n - 1) :
       buf[x] = g[(x \div NSPEEDS) + r * params.nx][x % NSPEEDS]

\* C20: whatever the interleaving of the ranks, the row a rank stores in its
\* tag-0 exchange of iteration t is the first row of its successor as the
\* successor sent it in its own iteration t, and the row it stores in its
\* tag-1 exchange of iteration t is the last row of its predecessor as sent
\* in the predecessor's iteration t, also with two ranks, whose successor
\* and predecessor are the same rank; a gather receive takes the one gather
\* message of its sender; on every channel the messages sent with a tag
\* are those received with that tag and those still in flight.
C20_HaloMessagesMatch ==
  /\ \A w \in Ranks :
       \A k \in 1 .. Len(hRecv[w]) :
         LET e == hRecv[w][k]
             o == IF e.tag = 0 THEN Succ(w) ELSE IF e.tag = 1 THEN Pred(w) ELSE e.from
             row == IF e.tag = 1 THEN Start(o) + Size(o) - 1 ELSE Start(o)
             len == IF e.tag = 2 THEN Size(o) ELSE 1
             sent == IF e.tag = 2 THEN SendsTo(o, w, 2) ELSE SendsIn(o, w, e.tag, e.iter)
         IN /\ e.from = o
            /\ e.tag = 2 => w = MASTER
            /\ Cardinality(sent) = 1
            /\ \A j \in sent :
                 /\ hSend[o][j].rows = Range(row, len)
                 /\ HoldsRows(e.buf, hSend[o][j].grid, row, params.nx * len * NSPEEDS)
  /\ \A o, w \in Ranks :
       \A g \in Tags :
         Cardinality(SendsTo(o, w, g)) =
           Cardinality(RecvsFrom(w, o, g)) + Len(chan[<<o, w, g>>])

\* one of three ranks has stored, in its second iteration, a row from its
\* successor and a different one from its predecessor, the first of which
\* differs from the one it got from the successor an iteration earlier
C20_Witness ==
  \E w \in Ranks :
    \E k0, k1, k2 \in 1 .. Len(hRecv[w]) :
      /\ size = 3
      /\ hRecv[w][k0].tag = 0 /\ hRecv[w][k0].iter = 0
      /\ hRecv[w][k1].tag = 0 /\ hRecv[w][k1].iter = 1
      /\ hRecv[w][k2].tag = 1 /\ hRecv[w][k2].iter = 1
      /\ hRecv[w][k0].buf # hRecv[w][k1].buf
      /\ hRecv[w][k1].buf # hRecv[w][k2].buf

----------------------------------------------------------------------------
\* C21: for more than one rank, also more ranks than rows, every row
\* halo_exchange reads to fill a send buffer lies in [0, ny) and is a row of
\* the sender, and every row it writes on receive lies in [0, ny) and is
\* not a row of the receiver.
C21_HaloRowsInRange ==
  \A w \in Ranks :
    /\ \A k \in 1 .. Len(hSend[w]) :
         hSend[w][k].tag \in {0, 1} =>
           /\ hSend[w][k].rows \subseteq Rows
           /\ hSend[w][k].rows \subseteq OwnedRows(w)
    /\ \A k \in 1 .. Len(hRecv[w]) :
         hRecv[w][k].tag \in {0, 1} =>
           /\ hRecv[w][k].rows \subseteq Rows
           /\ hRecv[w][k].rows \cap OwnedRows(w) = {}

----------------------------------------------------------------------------
\* the grid made of every row as its owner left it after its last iteration
OwnersGrid == [x \in AllCells |-> LastGrid(Owner(RowOf(x)))[x]]

\* the Reynolds number of grid g: the average velocity magnitude over the
\* non-obstacle cells of all rows, times reynolds_dim, over the viscosity
\* 1/6 * (2/omega - 1)
ReynoldsOver(g) ==
  LET F == {x \in AllCells : obstacles[x] = 0}
      av == FDiv(SumFn([x \in F |-> CellSpeed(g[x])], F), Cardinality(F))
  IN IF av.k = "nan" THEN NaN
     ELSE FDiv(av.v * params.reynolds_dim * 6 * params.omega.num,
               2 * params.omega.den - params.omega.num)

\* C22: the Reynolds number and the final output are computed by rank 0
\* only, and with more than one rank only after sync_grid has stored the
\* rows of every other rank in the grid of rank 0; the Reynolds average
\* ranges over all rows of that grid and involves no reduction; what is
\* written is computed from the owners' rows, not from the grid of another
\* rank.
C22_OutputAfterGather ==
  /\ \A w \in Ranks \ {MASTER} : pc[w] # "write_values"
  /\ (pc[MASTER] = "write_values" \/ output.written) =>
       /\ \A w \in Ranks \ {MASTER} :
            /\ Cardinality(RecvsFrom(MASTER, w, 2)) = 1
            /\ chan[<<w, MASTER, 2>>] = <<>>
            /\ red[w] = <<>>
       /\ cells[MASTER] = OwnersGrid
  /\ output.written =>
       /\ pc[MASTER] \in {"finalise", "done"}
       /\ output.reynolds = ReynoldsOver(OwnersGrid)
       /\ output.av_vels = av_vels[MASTER]
       /\ \A x \in AllCells :
            output.final_state[x].pressure =
              IF obstacles[x] # 0 THEN params.density \div 3
              ELSE local_density(OwnersGrid[x]) \div 3

\* rank 0 has written the output of a run of two iterations on two ranks;
\* the grid of the other rank would have given another Reynolds number
C22_Witness ==
  /\ size > 1
  /\ params.maxIters = 2
  /\ output.written
  /\ output.reynolds.k = "num"
  /\ output.reynolds.v > 0
  /\ \E w \in Ranks \ {MASTER} : ReynoldsOver(cells[w]) # output.reynolds

----------------------------------------------------------------------------
\* C23: every read of the grid or of the obstacle mask for cell (col, row)
\* uses the index col + row * nx, inside [0, nx * ny); so the obstacle flag
\* write_values prints for cell (ii, jj) is the mask value of cell (ii, jj),
\* and the line is the line of that cell.
C23_FlagOfTheCell ==
  output.written =>
    \A x \in AllCells :
      /\ output.final_state[x].ii = x % params.nx
      /\ output.final_state[x].jj = x \div params.nx
      /\ output.final_state[x].obstacle = obstacles[x]

====
